---- MODULE Spec2Model ----
(***************************************************************************)
(* Detections aggregation of oaParkingMonitor's cloud back end.            *)
(*                                                                         *)
(*   DetectionAggregator.class.js   aggregate(): hour fold + four rollups  *)
(*   system_detections_aggregator   the hourly run (watermark, bin stores) *)
(*   device_post_detections         the ingestion endpoint (stores the raw *)
(*                                  detections, rewinds the watermark)     *)
(*                                                                         *)
(* Time is counted in ticks.  The calendar is scaled down (an hour is      *)
(* HourLen ticks, a day HoursPerDay hours, ...) but keeps the shape of the *)
(* real one: hours nest in days, days in months, months in years, and      *)
(* weeks nest in neither months nor years.                                 *)
(*                                                                         *)
(* A JavaScript array of bins is modelled as the set of its elements (no   *)
(* operation of the code depends on the order of a bin array), a Map as a  *)
(* function.  Numbers that JavaScript computes by division are exact       *)
(* fractions <<numerator, denominator>>.  Fields that are pure copies or   *)
(* renderings (zoneId, startTsH, endTsH, midTs, midTsH, createdAt,         *)
(* updatedAt) are left out of the bin record.                              *)
(***************************************************************************)
EXTENDS Integers, Sequences, FiniteSets, TLC

(***************************************************************************)
(* Bounds of the model.                                                    *)
(***************************************************************************)
HourLen == 2          \* ticks per hour
HoursPerDay == 2
DaysPerWeek == 3
DaysPerMonth == 2
MonthsPerYear == 2
MaxId == 3            \* detection ids are 1..MaxId
MaxBatch == 2         \* longest batch handed to aggregate() directly
MaxCalls == 2         \* longest chain of direct aggregate() calls
MaxInput == 3         \* longest batch of a single aggregate() call on empty bins

DayLen == HoursPerDay * HourLen
WeekLen == DaysPerWeek * DayLen
MonthLen == DaysPerMonth * DayLen
YearLen == MonthsPerYear * MonthLen

(***************************************************************************)
(* JavaScript values.                                                      *)
(***************************************************************************)
Null == -1                 \* null in a min/max field (spaces are >= 0)
Undefined == <<-1>>        \* a field that is undefined (ids, means, rate)
NaN == <<0, 0>>            \* 0 / 0
Infinity == <<1, 0>>       \* x / 0, x > 0

RECURSIVE Gcd(_, _)
Gcd(a, b) == IF b = 0 THEN a ELSE Gcd(b, a % b)

\* n / d of two non-negative integers, as JavaScript's "/".
Frac(n, d) ==
    IF d = 0 THEN (IF n = 0 THEN NaN ELSE Infinity)
    ELSE LET g == Gcd(n, d) IN <<n \div g, d \div g>>

\* a / b of two finite fractions.
FracDiv(a, b) == Frac(a[1] * b[2], a[2] * b[1])

\* a <= b for two finite fractions.
FracLeq(a, b) == a[1] * b[2] <= b[1] * a[2]

Min(a, b) == IF a <= b THEN a ELSE b
Max(a, b) == IF a >= b THEN a ELSE b

(***************************************************************************)
(* Luxon: DateTime.fromMillis(ts, {zone}).startOf(unit) / endOf(unit).     *)
(***************************************************************************)
BIN_ACCEPTED_VALUES == <<"hour", "day", "week", "month", "year">>
Levels == {"hour", "day", "week", "month", "year"}
Zones == {"UTC", "America/Montreal"}

\* Offset of a zone from UTC, in ticks; a missing zone is the runtime's
\* default zone, UTC.
ZoneOffset(zone) == IF zone = "America/Montreal" THEN 0 - HourLen ELSE 0

UnitLen(binSize) ==
    CASE binSize = "hour" -> HourLen
      [] binSize = "day" -> DayLen
      [] binSize = "week" -> WeekLen
      [] binSize = "month" -> MonthLen
      [] binSize = "year" -> YearLen

\* (the bucket of the instant in UTC, whatever the zone)
StartOfInUTC(ts, binSize, zone) == ts - (ts % UnitLen(binSize))

StartOf(ts, binSize, zone) ==
    LET local == ts + ZoneOffset(zone)
    IN  (local - (local % UnitLen(binSize))) - ZoneOffset(zone)

EndOf(ts, binSize, zone) == StartOf(ts, binSize, zone) + UnitLen(binSize) - 1

(***************************************************************************)
(* DetectionAggregator                                                     *)
(***************************************************************************)
\* (a key that leaves the camera out)
MakeBinKeyNoCamera(binSize, cameraId, startTs) == <<"", binSize, startTs>>

\* `${cameraId}_${binSize}_${startTs}`: startTs is a number and binSize one of
\* five words, so two keys are equal only if their three parts are.
MakeBinKey(binSize, cameraId, startTs) == <<cameraId, binSize, startTs>>

\* (a bin that has an id list whatever its level)
NewBinKeepingIds(binSize, source, start, end, timezone, keepIds) ==
    [id |-> MakeBinKey(binSize, source.cameraId, start),
     binSize |-> binSize,
     cameraId |-> source.cameraId,
     customerId |-> source.customerId,
     siteId |-> source.siteId,
     timezone |-> timezone,
     startTs |-> start,
     endTs |-> end,
     aggregatedIds |-> <<>>,
     aggregatedNumber |-> 0,
     sumOccupiedSpaces |-> 0,
     sumTotalSpaces |-> 0,
     minOccupiedSpaces |-> Null,
     maxOccupiedSpaces |-> Null,
     minTotalSpaces |-> Null,
     maxTotalSpaces |-> Null,
     meanOccupiedSpaces |-> Undefined,
     meanTotalSpaces |-> Undefined,
     occupationRate |-> Undefined]

NewBin(binSize, source, start, end, timezone, keepIds) ==
    [id |-> MakeBinKey(binSize, source.cameraId, start),
     binSize |-> binSize,
     cameraId |-> source.cameraId,
     customerId |-> source.customerId,
     siteId |-> source.siteId,
     timezone |-> timezone,
     startTs |-> start,
     endTs |-> end,
     aggregatedIds |-> IF keepIds THEN <<>> ELSE Undefined,
     aggregatedNumber |-> 0,
     sumOccupiedSpaces |-> 0,
     sumTotalSpaces |-> 0,
     minOccupiedSpaces |-> Null,
     maxOccupiedSpaces |-> Null,
     minTotalSpaces |-> Null,
     maxTotalSpaces |-> Null,
     meanOccupiedSpaces |-> Undefined,
     meanTotalSpaces |-> Undefined,
     occupationRate |-> Undefined]

\* The three derived fields, recomputed at the end of both update methods.
WithMeans(bin) ==
    LET meanO == Frac(bin.sumOccupiedSpaces, bin.aggregatedNumber)
        meanT == Frac(bin.sumTotalSpaces, bin.aggregatedNumber)
    IN  [bin EXCEPT !.meanOccupiedSpaces = meanO,
                    !.meanTotalSpaces = meanT,
                    !.occupationRate = FracDiv(meanO, meanT)]

\* (Math.max where the minimum of the occupied spaces is kept)
UpdateBinWithParkingDetectionMaxAsMin(bin, detection) ==
    WithMeans(
        [bin EXCEPT
            !.aggregatedNumber = @ + 1,
            !.sumOccupiedSpaces = @ + detection.occupiedSpaces,
            !.sumTotalSpaces = @ + detection.totalSpaces,
            !.minOccupiedSpaces = IF @ = Null THEN detection.occupiedSpaces
                                  ELSE Max(@, detection.occupiedSpaces),
            !.maxOccupiedSpaces = IF @ = Null THEN detection.occupiedSpaces
                                  ELSE Max(@, detection.occupiedSpaces),
            !.minTotalSpaces = IF @ = Null THEN detection.totalSpaces
                               ELSE Min(@, detection.totalSpaces),
            !.maxTotalSpaces = IF @ = Null THEN detection.totalSpaces
                               ELSE Max(@, detection.totalSpaces),
            !.aggregatedIds = IF @ # Undefined THEN Append(@, detection.id) ELSE @])

\* (the latest reading kept as the maximum of the occupied spaces)
UpdateBinWithParkingDetectionLatestAsMax(bin, detection) ==
    WithMeans(
        [bin EXCEPT
            !.aggregatedNumber = @ + 1,
            !.sumOccupiedSpaces = @ + detection.occupiedSpaces,
            !.sumTotalSpaces = @ + detection.totalSpaces,
            !.minOccupiedSpaces = IF @ = Null THEN detection.occupiedSpaces
                                  ELSE Min(@, detection.occupiedSpaces),
            !.maxOccupiedSpaces = detection.occupiedSpaces,
            !.minTotalSpaces = IF @ = Null THEN detection.totalSpaces
                               ELSE Min(@, detection.totalSpaces),
            !.maxTotalSpaces = IF @ = Null THEN detection.totalSpaces
                               ELSE Max(@, detection.totalSpaces),
            !.aggregatedIds = IF @ # Undefined THEN Append(@, detection.id) ELSE @])

UpdateBinWithParkingDetection(bin, detection) ==
    WithMeans(
        [bin EXCEPT
            !.aggregatedNumber = @ + 1,
            !.sumOccupiedSpaces = @ + detection.occupiedSpaces,
            !.sumTotalSpaces = @ + detection.totalSpaces,
            !.minOccupiedSpaces = IF @ = Null THEN detection.occupiedSpaces
                                  ELSE Min(@, detection.occupiedSpaces),
            !.maxOccupiedSpaces = IF @ = Null THEN detection.occupiedSpaces
                                  ELSE Max(@, detection.occupiedSpaces),
            !.minTotalSpaces = IF @ = Null THEN detection.totalSpaces
                               ELSE Min(@, detection.totalSpaces),
            !.maxTotalSpaces = IF @ = Null THEN detection.totalSpaces
                               ELSE Max(@, detection.totalSpaces),
            !.aggregatedIds = IF @ # Undefined THEN Append(@, detection.id) ELSE @])

\* (a merge that takes the child's minima and maxima instead of comparing)
UpdateParkingBinWithBinOverwriting(bin, childBin) ==
    IF childBin.aggregatedNumber = 0 THEN bin
    ELSE WithMeans(
        [bin EXCEPT
            !.aggregatedNumber = @ + childBin.aggregatedNumber,
            !.sumOccupiedSpaces = @ + childBin.sumOccupiedSpaces,
            !.sumTotalSpaces = @ + childBin.sumTotalSpaces,
            !.minOccupiedSpaces = childBin.minOccupiedSpaces,
            !.maxOccupiedSpaces = childBin.maxOccupiedSpaces,
            !.minTotalSpaces = childBin.minTotalSpaces,
            !.maxTotalSpaces = childBin.maxTotalSpaces])

UpdateParkingBinWithBin(bin, childBin) ==
    IF childBin.aggregatedNumber = 0 THEN bin
    ELSE WithMeans(
        [bin EXCEPT
            !.aggregatedNumber = @ + childBin.aggregatedNumber,
            !.sumOccupiedSpaces = @ + childBin.sumOccupiedSpaces,
            !.sumTotalSpaces = @ + childBin.sumTotalSpaces,
            !.minOccupiedSpaces = IF @ = Null THEN childBin.minOccupiedSpaces
                                  ELSE Min(@, childBin.minOccupiedSpaces),
            !.maxOccupiedSpaces = IF @ = Null THEN childBin.maxOccupiedSpaces
                                  ELSE Max(@, childBin.maxOccupiedSpaces),
            !.minTotalSpaces = IF @ = Null THEN childBin.minTotalSpaces
                               ELSE Min(@, childBin.minTotalSpaces),
            !.maxTotalSpaces = IF @ = Null THEN childBin.maxTotalSpaces
                               ELSE Max(@, childBin.maxTotalSpaces)])

\* (a duplicate check that always finds the id)
IncludesAlways(ids, id) == TRUE

\* (a duplicate check that looks at the last folded id only)
IncludesLastOnly(ids, id) == ids # <<>> /\ ids[Len(ids)] = id

\* Array.prototype.includes on aggregatedIds.
Includes(ids, id) == \E i \in 1..Len(ids) : ids[i] = id

\* (a Map that is not seeded)
SeedNoBins(binSize, existing) == <<>>

\* "Seed bins with existing ones": the Map from key to bin.
SeedBins(binSize, existing) ==
    [key \in {MakeBinKey(binSize, b.cameraId, b.startTs) : b \in existing} |->
        CHOOSE b \in existing : MakeBinKey(binSize, b.cameraId, b.startTs) = key]

\* Map.set
MapSet(map, key, value) == (key :> value) @@ map

\* Array.from(map.values())
MapValues(map) == {map[key] : key \in DOMAIN map}

\* The loop over the detections of _aggregateHourBins.
RECURSIVE HourFold(_, _)
HourFold(bins, detections) ==
    IF detections = <<>> THEN bins
    ELSE LET detection == Head(detections)
             start == StartOf(detection.ts, "hour", detection.timezone)
             end == EndOf(detection.ts, "hour", detection.timezone)
             key == MakeBinKey("hour", detection.cameraId, start)
             bin == IF key \in DOMAIN bins THEN bins[key]
                    ELSE NewBin("hour", detection, start, end, detection.timezone, TRUE)
             folded == IF ~Includes(bin.aggregatedIds, detection.id)
                       THEN UpdateBinWithParkingDetection(bin, detection)
                       ELSE bin
         IN  HourFold(MapSet(bins, key, folded), Tail(detections))

\* (hour bins made from the batch alone)
AggregateHourBinsUnseeded(detections, existingHourBins) ==
    MapValues(HourFold(<<>>, detections))

AggregateHourBins(detections, existingHourBins) ==
    MapValues(HourFold(SeedBins("hour", existingHourBins), detections))

\* The loop over the lower bins of _rollupBins.
RECURSIVE RollupFold(_, _, _)
RollupFold(bins, lowerBins, binSize) ==
    IF lowerBins = {} THEN bins
    ELSE LET lowerBin == CHOOSE b \in lowerBins : TRUE
             start == StartOf(lowerBin.startTs, binSize, lowerBin.timezone)
             end == EndOf(lowerBin.startTs, binSize, lowerBin.timezone)
             key == MakeBinKey(binSize, lowerBin.cameraId, start)
             bin == IF key \in DOMAIN bins THEN bins[key]
                    ELSE NewBin(binSize, lowerBin, start, end, lowerBin.timezone, FALSE)
         IN  RollupFold(MapSet(bins, key, UpdateParkingBinWithBin(bin, lowerBin)),
                        lowerBins \ {lowerBin}, binSize)

RollupBins(lowerBins, binSize, existingUpperBins) ==
    MapValues(RollupFold(SeedBins(binSize, existingUpperBins), lowerBins, binSize))

NoBins == [hourBins |-> {}, dayBins |-> {}, weekBins |-> {}, monthBins |-> {}, yearBins |-> {}]

Aggregate(detections, existingBins) ==
    LET hourBins == AggregateHourBins(detections, existingBins.hourBins)
        dayBins == RollupBins(hourBins, "day", existingBins.dayBins)
        weekBins == RollupBins(hourBins, "week", existingBins.weekBins)
        monthBins == RollupBins(dayBins, "month", existingBins.monthBins)
        yearBins == RollupBins(monthBins, "year", existingBins.yearBins)
    IN  [hourBins |-> hourBins, dayBins |-> dayBins, weekBins |-> weekBins,
         monthBins |-> monthBins, yearBins |-> yearBins]

\* The caller's existingBins as they read once aggregate has returned. The
\* Maps are seeded with the caller's bin objects themselves, and the update
\* methods assign to the fields of the object they are given: the object of
\* an existing bin is the one that aggregate returns under its key.
ArgumentAfter(existing, returned, binSize) ==
    {CHOOSE b \in returned : b.id = MakeBinKey(binSize, e.cameraId, e.startTs) : e \in existing}

ExistingBinsAfter(existingBins, returned) ==
    [hourBins |-> ArgumentAfter(existingBins.hourBins, returned.hourBins, "hour"),
     dayBins |-> ArgumentAfter(existingBins.dayBins, returned.dayBins, "day"),
     weekBins |-> ArgumentAfter(existingBins.weekBins, returned.weekBins, "week"),
     monthBins |-> ArgumentAfter(existingBins.monthBins, returned.monthBins, "month"),
     yearBins |-> ArgumentAfter(existingBins.yearBins, returned.yearBins, "year")]

\* bins[`${level}Bins`]
BinsOf(bins, level) ==
    CASE level = "hour" -> bins.hourBins
      [] level = "day" -> bins.dayBins
      [] level = "week" -> bins.weekBins
      [] level = "month" -> bins.monthBins
      [] level = "year" -> bins.yearBins

(***************************************************************************)
(* The detections handed to aggregate() directly.  A detection is          *)
(* identified by its id: the id fixes the camera and the reading, the      *)
(* camera fixes site and timezone.                                         *)
(***************************************************************************)
DetectionIds == 1..MaxId

CameraOf(id) == IF id % 2 = 1 THEN "cam1" ELSE "cam2"

\* The instant of the detection handed to aggregate() under this id: the
\* detections of cam1 fall in the same hour; those of cam2 in that hour too
\* and in hours of later months.
TsSample(id) == IF id % 2 = 1 THEN 1 ELSE 1 + ((id - 2) \div 2) * MonthLen
ZoneOfCamera(cameraId) == IF cameraId = "cam1" THEN "America/Montreal" ELSE "UTC"

Detection(id, ts) ==
    [id |-> id, ts |-> ts, cameraId |-> CameraOf(id), customerId |-> "cust1",
     siteId |-> "site1", occupiedSpaces |-> id - 1, totalSpaces |-> 2,
     timezone |-> ZoneOfCamera(CameraOf(id))]

Universe == {Detection(id, TsSample(id)) : id \in DetectionIds}

Batches == UNION {[1..n -> Universe] : n \in 0..MaxBatch}

VARIABLES
    aggDetections,    \* the batch of the latest direct aggregate() call
    aggExisting,      \* the existingBins of that call
    aggResult,        \* what that call returned
    aggCalls          \* number of calls of the chain so far

aggVars == <<aggDetections, aggExisting, aggResult, aggCalls>>

AggInit ==
    /\ aggDetections = <<>>
    /\ aggExisting = NoBins
    /\ aggResult = NoBins
    /\ aggCalls = 0

\* aggregate(D, <the previous call's output>)
AggregateChained(D) ==
    /\ aggCalls < MaxCalls
    /\ aggDetections' = D
    /\ aggExisting' = aggResult
    /\ aggResult' = Aggregate(D, aggResult)
    /\ aggCalls' = aggCalls + 1

AggNext == aggCalls < MaxCalls /\ \E D \in Batches : AggregateChained(D)

\* aggregate(D, { hourBins }) with the hour bins of the previous call
AggregateHourSeeded(D) ==
    /\ aggCalls < MaxCalls
    /\ aggDetections' = D
    /\ aggExisting' = [NoBins EXCEPT !.hourBins = aggResult.hourBins]
    /\ aggResult' = Aggregate(D, aggExisting')
    /\ aggCalls' = aggCalls + 1

AggHourNext == aggCalls < MaxCalls /\ \E D \in Batches : AggregateHourSeeded(D)

\* A detection field that is missing reads as undefined: as a cameraId it
\* makes the key "undefined_hour_<start>", as a zone it is the default zone.
NoCamera == "undefined"
NoZone == "undefined"

\* Detections that lack cameraId, timezone, or both.
Malformed ==
    UNION {{[d EXCEPT !.cameraId = NoCamera],
            [d EXCEPT !.timezone = NoZone],
            [d EXCEPT !.cameraId = NoCamera, !.timezone = NoZone]} : d \in Universe}

\* The batches that hold detections of both sorts.
InputBatches == UNION {[1..n -> Universe \cup Malformed] : n \in 0..MaxBatch}

\* aggregate(D, {}) on any input
AggregateOnce(D) ==
    /\ aggCalls = 0
    /\ aggDetections' = D
    /\ aggExisting' = NoBins
    /\ aggResult' = Aggregate(D, NoBins)
    /\ aggCalls' = 1

AggInputNext == aggCalls = 0 /\ \E D \in InputBatches : AggregateOnce(D)

\* A detection posted with the default spaces of the API: totalSpaces 0 and
\* occupiedSpaces 0.
NoSpaces(d) == [d EXCEPT !.totalSpaces = 0, !.occupiedSpaces = 0]

\* The batches in which a detection may have the default spaces.
SpacesBatches ==
    UNION {[1..n -> Universe \cup {NoSpaces(d) : d \in Universe}] : n \in 0..MaxBatch}

AggSpacesNext == aggCalls < MaxCalls /\ \E D \in SpacesBatches : AggregateChained(D)

\* Instants in the first hour, in the next hour, in the next day, month and year.
TsSamples == {1, HourLen + 1, DayLen + 1, MonthLen + 1, YearLen + 1}

\* The batches of a single call: each detection at any of the instants, an
\* id standing for one detection (it may be listed more than once).
SampleBatches ==
    LET samples == {Detection(id, ts) : id \in DetectionIds, ts \in TsSamples}
    IN  {D \in UNION {[1..n -> samples] : n \in 0..MaxInput} :
            \A i, j \in DOMAIN D : D[i].id = D[j].id => D[i] = D[j]}

AggOnceNext == aggCalls = 0 /\ \E D \in SampleBatches : AggregateOnce(D)


\* Hour bins as _newBin makes them, with nothing folded in yet.
EmptyHourBins ==
    {NewBin("hour", Detection(id, ts), StartOf(ts, "hour", ZoneOfCamera(CameraOf(id))),
            EndOf(ts, "hour", ZoneOfCamera(CameraOf(id))), ZoneOfCamera(CameraOf(id)), TRUE) :
        id \in DetectionIds, ts \in TsSamples}

\* aggregate(D, { hourBins: [an empty hour bin] })
AggregateOnEmptyBin(D, empty) ==
    /\ aggCalls = 0
    /\ aggDetections' = D
    /\ aggExisting' = [NoBins EXCEPT !.hourBins = {empty}]
    /\ aggResult' = Aggregate(D, aggExisting')
    /\ aggCalls' = 1

AggEmptyNext ==
    aggCalls = 0 /\ \E D \in Batches : \E empty \in EmptyHourBins : AggregateOnEmptyBin(D, empty)

(***************************************************************************)
(* The deployed system: the detections table, the five bin tables, the     *)
(* system_states record "last_detections_aggregation" (the watermark), the *)
(* hourly aggregation run and the POST /detections handler.  Every await   *)
(* of a handler is a point where the other handlers may take steps.        *)
(* batchWrite/put either store everything they are given or throw.         *)
(***************************************************************************)
MaxNow == 2           \* the clock stops at this tick
MaxInvocations == 3   \* handler invocations (runs and POSTs) per behaviour

SMALLEST_TS == 0      \* aggregator's default watermark (Jan 1, 2000)
BIGGEST_TS == 1000    \* ingestion's default watermark (Jan 1, 2100)

NoItem == -1          \* getItemByPrimaryKey found no record
NoId == 0             \* a posted detection without id
NoTs == 0             \* a posted detection without ts (or with ts 0: !detection.ts)
HeaderCustomerId == "cust1"

Posters == {"p1", "p2"}
\* the invocation of the executions in which ingestions never overlap
OnePoster == "p1"

VARIABLES
    now,                \* Date.now()
    detectionsTable,    \* DETECTIONS_TABLE: set of detections, one per id
    binTables,          \* DETECTIONS_BIN_<LEVEL>_TABLE: record of five sets of bins, one per id
    watermark,          \* value of system_states "last_detections_aggregation", or NoItem
    binTableEnv,        \* the levels whose process.env.DETECTIONS_BIN_<LEVEL>_TABLE is set
    \* system_detections_aggregator handler
    aggPc,              \* position of the run
    runNow,             \* const now
    last_detections_aggregation,
    detections,         \* the fetched detections
    updatedBins,        \* aggregator.aggregate(detections, existingBins)
    numberOfBinsUpdated,\* per level, number of bins put by this run
    runLog,             \* what each finished run returned, with what it had fetched and put
    \* device_post_detections handler, one invocation per poster at a time
    postPc,
    jsonBody,           \* the part of the body not yet looped over
    postLast,           \* its last_detections_aggregation
    postDetections,     \* its detections (kept for saving)
    oldestTs,
    postCount           \* POST invocations started so far

runVars == <<aggPc, runNow, last_detections_aggregation, detections, updatedBins,
             numberOfBinsUpdated, runLog>>
postVars == <<postPc, jsonBody, postLast, postDetections, oldestTs, postCount>>
storeVars == <<detectionsTable, binTables, watermark, binTableEnv>>
vars == <<now, storeVars, runVars, postVars, aggVars>>

NoneUpdated == [level \in Levels |-> 0]

SysInit ==
    /\ now = 1
    /\ detectionsTable = {}
    /\ binTables = NoBins
    /\ watermark = NoItem
    /\ aggPc = "idle"
    /\ runNow = 0
    /\ last_detections_aggregation = 0
    /\ detections = <<>>
    /\ updatedBins = NoBins
    /\ numberOfBinsUpdated = NoneUpdated
    /\ runLog = <<>>
    /\ postPc = [p \in Posters |-> "idle"]
    /\ jsonBody = [p \in Posters |-> <<>>]
    /\ postLast = [p \in Posters |-> 0]
    /\ postDetections = [p \in Posters |-> <<>>]
    /\ oldestTs = [p \in Posters |-> 0]
    /\ postCount = 0

\* Every bin table is bound, as deployed.
Init == SysInit /\ AggInit /\ binTableEnv = Levels

\* The binding of at least one bin table is missing.
ConfigInit == SysInit /\ AggInit /\ binTableEnv \in (SUBSET Levels) \ {Levels}

\* aggregate() called directly, as the unit tests do.
SpecAgg == Init /\ [][AggNext /\ UNCHANGED <<now, storeVars, runVars, postVars>>]_vars

\* aggregate() called once on a batch that may hold malformed detections.
SpecAggInput == Init /\ [][AggInputNext /\ UNCHANGED <<now, storeVars, runVars, postVars>>]_vars

\* aggregate() called once, with no existing bins, on well-formed detections.
SpecAggOnce == Init /\ [][AggOnceNext /\ UNCHANGED <<now, storeVars, runVars, postVars>>]_vars

\* aggregate() called in a chain that hands on the hour bins only.
SpecAggHour == Init /\ [][AggHourNext /\ UNCHANGED <<now, storeVars, runVars, postVars>>]_vars

\* aggregate() called once with an empty hour bin among the existing bins.
SpecAggEmpty == Init /\ [][AggEmptyNext /\ UNCHANGED <<now, storeVars, runVars, postVars>>]_vars

\* aggregate() called in a chain on detections that may have totalSpaces 0.
SpecAggSpaces == Init /\ [][AggSpacesNext /\ UNCHANGED <<now, storeVars, runVars, postVars>>]_vars

\* awsHelpers.putItems / putItem: upsert by id.
PutItems(items, table) == {old \in table : \A item \in items : item.id # old.id} \cup items

\* A set of detections as the array a scan returns (taken in id order).
RECURSIVE ScanOrder(_)
ScanOrder(items) ==
    IF items = {} THEN <<>>
    ELSE LET first == CHOOSE d \in items : \A e \in items : d.id <= e.id
         IN  <<first>> \o ScanOrder(items \ {first})

SeqToSet(seq) == {seq[i] : i \in 1..Len(seq)}

Tick ==
    /\ now < MaxNow
    /\ now' = now + 1
    /\ UNCHANGED <<storeVars, runVars, postVars, aggVars>>

(***************************************************************************)
(* system_detections_aggregator: exports.handler                           *)
(***************************************************************************)
\* const now = Date.now(); the sites are read (timezoneBySiteId is not used again)
RunStart ==
    /\ aggPc = "idle"
    /\ Len(runLog) + postCount < MaxInvocations
    /\ aggPc' = "getWatermark"
    /\ runNow' = now
    /\ UNCHANGED <<now, storeVars, last_detections_aggregation, detections, updatedBins,
                   numberOfBinsUpdated, runLog, postVars, aggVars>>

RunGetWatermark ==
    /\ aggPc = "getWatermark"
    /\ last_detections_aggregation' = IF watermark # NoItem THEN watermark ELSE SMALLEST_TS
    /\ aggPc' = "getDetections"
    /\ UNCHANGED <<now, storeVars, runNow, detections, updatedBins, numberOfBinsUpdated,
                   runLog, postVars, aggVars>>

\* FilterExpression 'ts >= :last_detections_aggregation'
GetDetections(from) == {d \in detectionsTable : d.ts >= from}

RunResult(status, fetched) ==
    [status |-> status, fetched |-> {fetched[i].id : i \in 1..Len(fetched)},
     put |-> {level \in Levels : numberOfBinsUpdated[level] > 0}]

\* returning the response ends the invocation
RunReturn(status, fetched) ==
    /\ aggPc' = "idle"
    /\ runLog' = Append(runLog, RunResult(status, fetched))
    /\ runNow' = 0
    /\ last_detections_aggregation' = 0
    /\ detections' = <<>>
    /\ updatedBins' = NoBins
    /\ numberOfBinsUpdated' = NoneUpdated

\* (no early return when nothing was fetched)
RunGetDetectionsNoReturn ==
    /\ aggPc = "getDetections"
    /\ detections' = ScanOrder(GetDetections(last_detections_aggregation))
    /\ aggPc' = "getExistingBins"
    /\ UNCHANGED <<now, storeVars, runNow, last_detections_aggregation, updatedBins,
                   numberOfBinsUpdated, runLog, postVars, aggVars>>

RunGetDetections ==
    /\ aggPc = "getDetections"
    /\ LET fetched == ScanOrder(GetDetections(last_detections_aggregation))
       IN  IF Len(fetched) = 0
           THEN RunReturn("no new detections to aggregate", fetched)
           ELSE /\ detections' = fetched
                /\ aggPc' = "getExistingBins"
                /\ UNCHANGED <<runNow, last_detections_aggregation, updatedBins,
                               numberOfBinsUpdated, runLog>>
    /\ UNCHANGED <<now, storeVars, postVars, aggVars>>

\* (a window that starts at the watermark)
FromTsNotWidened(level, last) == last

\* the widened window of each level
FromTs(level, last) ==
    CASE level = "hour" -> last - (2 * HourLen)
      [] level = "day" -> last - (2 * DayLen)
      [] level = "week" -> last - (2 * DaysPerWeek * DayLen)
      [] level = "month" -> last - (2 * DaysPerMonth * DayLen)
      [] level = "year" -> last - (2 * MonthsPerYear * DaysPerMonth * DayLen)

\* FilterExpression 'startTs >= :fromTs' on the table of a level
ExistingBinsOf(level, last) == {b \in BinsOf(binTables, level) : b.startTs >= FromTs(level, last)}

GetExistingBins(last) ==
    [hourBins |-> ExistingBinsOf("hour", last),
     dayBins |-> ExistingBinsOf("day", last),
     weekBins |-> ExistingBinsOf("week", last),
     monthBins |-> ExistingBinsOf("month", last),
     yearBins |-> ExistingBinsOf("year", last)]

\* getExistingBins (which throws at the first level whose table name is not
\* set), then aggregator.aggregate
RunAggregate ==
    /\ aggPc = "getExistingBins"
    /\ IF binTableEnv # Levels
       THEN RunReturn("error", detections)
       ELSE /\ updatedBins' = Aggregate(detections, GetExistingBins(last_detections_aggregation))
            /\ aggPc' = "put_hour"
            /\ UNCHANGED <<runNow, last_detections_aggregation, detections,
                           numberOfBinsUpdated, runLog>>
    /\ UNCHANGED <<now, storeVars, postVars, aggVars>>

PutPc(level) ==
    CASE level = "hour" -> "put_hour"
      [] level = "day" -> "put_day"
      [] level = "week" -> "put_week"
      [] level = "month" -> "put_month"
      [] level = "year" -> "put_year"

\* the position after the put of a level
AfterPut(level) ==
    CASE level = "hour" -> "put_day"
      [] level = "day" -> "put_week"
      [] level = "week" -> "put_month"
      [] level = "month" -> "put_year"
      [] level = "year" -> "putWatermark"

\* one turn of "for (const level of BIN_ACCEPTED_VALUES)": putItems succeeds
RunPutBins(level) ==
    /\ aggPc = PutPc(level)
    /\ IF BinsOf(updatedBins, level) # {}
       THEN /\ binTables' = [binTables EXCEPT ![level \o "Bins"] =
                                PutItems(BinsOf(updatedBins, level), @)]
            /\ numberOfBinsUpdated' = [numberOfBinsUpdated EXCEPT
                                          ![level] = Cardinality(BinsOf(updatedBins, level))]
       ELSE UNCHANGED <<binTables, numberOfBinsUpdated>>
    /\ aggPc' = AfterPut(level)
    /\ UNCHANGED <<now, binTableEnv, detectionsTable, watermark, runNow, last_detections_aggregation,
                   detections, updatedBins, runLog, postVars, aggVars>>

\* (an error path that still advances the watermark)
RunPutBinsFailAdvancing(level) ==
    /\ aggPc = PutPc(level)
    /\ BinsOf(updatedBins, level) # {}
    /\ watermark' = runNow
    /\ RunReturn("error", detections)
    /\ UNCHANGED <<now, binTableEnv, detectionsTable, binTables, postVars, aggVars>>

\* putItems throws: the catch block returns the error
RunPutBinsFail(level) ==
    /\ aggPc = PutPc(level)
    /\ BinsOf(updatedBins, level) # {}
    /\ RunReturn("error", detections)
    /\ UNCHANGED <<now, storeVars, postVars, aggVars>>

\* (the watermark set to the latest ts among the fetched detections)
RunPutWatermarkMaxTs ==
    /\ aggPc = "putWatermark"
    /\ watermark' = (CHOOSE t \in {detections[i].ts : i \in 1..Len(detections)} :
                        \A i \in 1..Len(detections) : detections[i].ts <= t)
    /\ RunReturn("success", detections)
    /\ UNCHANGED <<now, binTableEnv, detectionsTable, binTables, postVars, aggVars>>

\* "Update last aggregation timestamp in SYSTEM_STATES table", then return success
RunPutWatermark ==
    /\ aggPc = "putWatermark"
    /\ watermark' = runNow
    /\ RunReturn("success", detections)
    /\ UNCHANGED <<now, binTableEnv, detectionsTable, binTables, postVars, aggVars>>

\* putItem throws
RunPutWatermarkFail ==
    /\ aggPc = "putWatermark"
    /\ RunReturn("error", detections)
    /\ UNCHANGED <<now, storeVars, postVars, aggVars>>

(***************************************************************************)
(* device_post_detections: exports.handler                                 *)
(***************************************************************************)
\* What a device posts: a reading as in Detection(id, ts), taken at the
\* current time or earlier, customerId missing.
Posted(id, ts) == [Detection(id, ts) EXCEPT !.customerId = ""]

\* The bodies of one detection: a reading; a detection without ts; a
\* detection without id; a detection of another customer.
SingleBodies ==
    {<<Posted(id, ts)>> : id \in DetectionIds, ts \in 1..now}
        \cup {<<Posted(1, NoTs)>>}
        \cup {<<[Posted(1, NoTs) EXCEPT !.id = NoId]>>}
        \cup {<<[Posted(1, NoTs) EXCEPT !.customerId = "cust2"]>>}

\* The bodies: one detection, or two with different ids.
PostBodies ==
    LET posted == {Posted(id, ts) : id \in DetectionIds, ts \in 1..now}
    IN  SingleBodies \cup {pair \in posted \X posted : pair[1].id < pair[2].id}

\* the body is parsed, the customer looked up, the watermark read
PostStart(p, body) ==
    /\ postPc[p] = "idle"
    /\ postCount + Len(runLog) + (IF aggPc = "idle" THEN 0 ELSE 1) < MaxInvocations
    /\ postCount' = postCount + 1
    /\ postPc' = [postPc EXCEPT ![p] = "loop"]
    /\ jsonBody' = [jsonBody EXCEPT ![p] = body]
    /\ postLast' = [postLast EXCEPT ![p] = IF watermark # NoItem THEN watermark ELSE BIGGEST_TS]
    /\ oldestTs' = [oldestTs EXCEPT ![p] = postLast'[p]]
    /\ UNCHANGED <<now, storeVars, runVars, postDetections, aggVars>>

\* the catch block, or the end of the handler: the response (with this
\* statusCode) is returned
PostReturn(p, statusCode) ==
    /\ postPc' = [postPc EXCEPT ![p] = "idle"]
    /\ jsonBody' = [jsonBody EXCEPT ![p] = <<>>]
    /\ postLast' = [postLast EXCEPT ![p] = 0]
    /\ postDetections' = [postDetections EXCEPT ![p] = <<>>]
    /\ oldestTs' = [oldestTs EXCEPT ![p] = 0]

\* awsHelpers.uuidv7(): an id nobody has used
FreshIds(p) ==
    {id \in DetectionIds :
        /\ \A d \in detectionsTable : d.id # id
        /\ \A q \in Posters : \A i \in 1..Len(postDetections[q]) : postDetections[q][i].id # id
        /\ \A q \in Posters : \A i \in 1..Len(jsonBody[q]) : jsonBody[q][i].id # id}

\* (the ts of the latest detection, not the oldest)
LatestTs(oldest, ts) == ts

\* if (detection.ts < oldestTs) oldestTs = detection.ts
OldestTs(oldest, ts) == IF ts < oldest THEN ts ELSE oldest

\* one turn of "for (let detection of jsonBody)"
PostLoop(p) ==
    /\ postPc[p] = "loop"
    /\ jsonBody[p] # <<>>
    /\ LET detection == Head(jsonBody[p])
       IN  IF detection.customerId # "" /\ detection.customerId # HeaderCustomerId
           THEN \* Forbidden: customerId mismatch
                PostReturn(p, 403)
           ELSE \E id \in (IF detection.id = NoId THEN FreshIds(p) ELSE {detection.id}) :
                /\ jsonBody' = [jsonBody EXCEPT ![p] = Tail(@)]
                /\ UNCHANGED <<postPc, postLast>>
                /\ IF \E d \in detectionsTable : d.id = id
                   THEN \* already exists: skipping
                        UNCHANGED <<postDetections, oldestTs>>
                   ELSE LET saved == [detection EXCEPT
                                        !.id = id,
                                        !.customerId = IF @ = "" THEN HeaderCustomerId ELSE @,
                                        !.ts = IF @ = NoTs THEN now ELSE @]
                        IN  /\ postDetections' = [postDetections EXCEPT ![p] = Append(@, saved)]
                            /\ oldestTs' = [oldestTs EXCEPT ![p] = OldestTs(@, saved.ts)]
    /\ UNCHANGED <<now, storeVars, runVars, postCount, aggVars>>

\* "Save all detections": putItems succeeds
PostPutItems(p) ==
    /\ postPc[p] = "loop"
    /\ jsonBody[p] = <<>>
    /\ detectionsTable' = PutItems(SeqToSet(postDetections[p]), detectionsTable)
    /\ postPc' = [postPc EXCEPT ![p] = "putWatermark"]
    /\ UNCHANGED <<now, binTableEnv, binTables, watermark, runVars, jsonBody, postLast, postDetections,
                   oldestTs, postCount, aggVars>>

\* putItems throws
PostPutItemsFail(p) ==
    /\ postPc[p] = "loop"
    /\ jsonBody[p] = <<>>
    /\ postDetections[p] # <<>>
    /\ PostReturn(p, 500)
    /\ UNCHANGED <<now, storeVars, runVars, postCount, aggVars>>

\* the rewind of last_detections_aggregation, when needed, then the response
PostPutWatermark(p) ==
    /\ postPc[p] = "putWatermark"
    /\ watermark' = IF oldestTs[p] < postLast[p] THEN oldestTs[p] ELSE watermark
    /\ PostReturn(p, 200)
    /\ UNCHANGED <<now, binTableEnv, detectionsTable, binTables, runVars, postCount, aggVars>>

\* putItem throws
PostPutWatermarkFail(p) ==
    /\ postPc[p] = "putWatermark"
    /\ oldestTs[p] < postLast[p]
    /\ PostReturn(p, 500)
    /\ UNCHANGED <<now, storeVars, runVars, postCount, aggVars>>

RunStep ==
    \/ RunStart
    \/ RunGetWatermark
    \/ RunGetDetections
    \/ RunAggregate
    \/ \E level \in Levels : RunPutBins(level)
    \/ RunPutWatermark

RunFailure ==
    \/ \E level \in Levels : RunPutBinsFail(level)
    \/ RunPutWatermarkFail

\* the steps of an invocation whose body is one of these
PostSteps(p, bodies) ==
    \/ \E body \in bodies : PostStart(p, body)
    \/ PostLoop(p)
    \/ PostPutItems(p)
    \/ PostPutWatermark(p)

PostStep(p) == PostSteps(p, PostBodies)

PostFailure(p) ==
    \/ PostPutItemsFail(p)
    \/ PostPutWatermarkFail(p)

\* No handler is in progress.
Quiet == aggPc = "idle" /\ \A p \in Posters : postPc[p] = "idle"
RunIdle == aggPc = "idle"
PostersIdle == \A p \in Posters : postPc[p] = "idle"

\* The handlers run one at a time and no store operation fails.
SerialNext ==
    \/ Tick /\ Quiet
    \/ RunStep /\ PostersIdle
    \/ PostStep(OnePoster) /\ RunIdle

SpecSerial == Init /\ [][SerialNext]_vars

\* The handlers run one at a time, the devices post one detection at a
\* time; store writes may fail.
FailingNext ==
    \/ Tick /\ Quiet
    \/ RunStep /\ PostersIdle
    \/ PostSteps(OnePoster, SingleBodies) /\ RunIdle
    \/ RunFailure /\ PostersIdle
    \/ PostFailure(OnePoster) /\ RunIdle

SpecFailing == Init /\ [][FailingNext]_vars

\* The handlers run one at a time, the devices post one detection at a
\* time, and the clock advances while a handler runs; no store operation fails.
TickingNext ==
    \/ Tick
    \/ RunStep /\ PostersIdle
    \/ PostSteps(OnePoster, SingleBodies) /\ RunIdle

SpecTicking == Init /\ [][TickingNext]_vars

\* The same executions (without the clock advancing during a handler) of a
\* deployment that lacks the binding of a bin table.
ConfigNext ==
    \/ Tick /\ Quiet
    \/ RunStep /\ PostersIdle
    \/ PostSteps(OnePoster, SingleBodies) /\ RunIdle

SpecConfig == ConfigInit /\ [][ConfigNext]_vars

\* A run overlaps ingestions, which come one at a time; no store operation fails.
OverlapNext ==
    \/ Tick
    \/ RunStep
    \/ PostStep(OnePoster)

SpecOverlap == Init /\ [][OverlapNext]_vars

\* Any interleaving of the handlers' steps; no store operation fails.
Next ==
    \/ Tick
    \/ RunStep
    \/ \E p \in Posters : PostStep(p)

Spec == Init /\ [][Next]_vars

\* SITES_TABLE: the site of the cameras is in Montreal.
Sites == {[id |-> "site1", timezone |-> "America/Montreal"]}

\* timezoneBySiteId[site.id] = site.timezone || "UTC", as the run builds it
\* when it starts
TimezoneBySiteId(siteId) ==
    IF \E site \in Sites : site.id = siteId /\ site.timezone \in Zones
    THEN (CHOOSE site \in Sites : site.id = siteId).timezone
    ELSE "UTC"

\* What a device posts according to the Detections API, which has no
\* timezone property: one reading, taken at the current time or earlier.
SitesBodies == {<<[Posted(id, ts) EXCEPT !.timezone = NoZone]>> : id \in DetectionIds, ts \in 1..now}

\* The handlers run one at a time; no store operation fails.
SitesNext ==
    \/ Tick /\ Quiet
    \/ RunStep /\ PostersIdle
    \/ PostSteps(OnePoster, SitesBodies) /\ RunIdle

SpecSites == Init /\ [][SitesNext]_vars

\* The deployment some time after the clock of the model starts: a detection
\* was posted at that time and a run, started at that time, has aggregated it
\* and set the watermark.
FirstRunTime == MaxNow + 1
FirstDetection == Detection(MaxId, FirstRunTime)

\* The state in which a detection was stored and a run, started at this
\* time, has aggregated it and set the watermark; no invocation in progress.
AfterRunInit(stored, time) ==
    /\ now = time
    /\ detectionsTable = {stored}
    /\ binTables = Aggregate(<<stored>>, NoBins)
    /\ watermark = time
    /\ binTableEnv = Levels
    /\ aggPc = "idle"
    /\ runNow = 0
    /\ last_detections_aggregation = 0
    /\ detections = <<>>
    /\ updatedBins = NoBins
    /\ numberOfBinsUpdated = NoneUpdated
    /\ runLog = <<>>
    /\ postPc = [p \in Posters |-> "idle"]
    /\ jsonBody = [p \in Posters |-> <<>>]
    /\ postLast = [p \in Posters |-> 0]
    /\ postDetections = [p \in Posters |-> <<>>]
    /\ oldestTs = [p \in Posters |-> 0]
    /\ postCount = 0
    /\ AggInit

AfterFirstRunInit == AfterRunInit(FirstDetection, FirstRunTime)

\* Ingestions that overlap one another, the devices posting one detection
\* at a time; no run, no store operation fails.
IngestNext == \E p \in Posters : PostSteps(p, SingleBodies)

SpecIngest == AfterFirstRunInit /\ [][IngestNext]_vars

\* The deployment when the watermark has moved more than two hours past a
\* persisted hour bin: a detection of cam1 was stored in the second hour and
\* aggregated by a run that started two hours later.
WindowDetection == Detection(1, HourLen + 1)
WindowTime == (3 * HourLen) + 1

\* What the devices then post, one detection at a time: a reading taken
\* now, in the hour of the stored detection, or before it.
WindowBodies == {<<Posted(id, ts)>> : id \in DetectionIds, ts \in {1, HourLen + 1, now}}

\* The handlers run one at a time; no store operation fails.
WindowNext ==
    \/ RunStep /\ PostersIdle
    \/ PostSteps(OnePoster, WindowBodies) /\ RunIdle

SpecWindow == AfterRunInit(WindowDetection, WindowTime) /\ [][WindowNext]_vars

(***************************************************************************)
(* Properties of aggregate()                                               *)
(***************************************************************************)
\* The aggregate values of a bin, with the bin's identity.
AggregateValues(bin) ==
    <<bin.id, bin.aggregatedNumber, bin.sumOccupiedSpaces, bin.sumTotalSpaces,
      bin.minOccupiedSpaces, bin.maxOccupiedSpaces, bin.minTotalSpaces, bin.maxTotalSpaces>>

SameAggregates(R1, R2) ==
    \A level \in Levels :
        {AggregateValues(b) : b \in BinsOf(R1, level)} = {AggregateValues(b) : b \in BinsOf(R2, level)}

\* C1: replaying a batch D against R = aggregate(D, {}) returns, at each of
\* the five granularities, bins with the same aggregate values as R.
C1_ReplayIdempotent ==
    [][(aggCalls = 1 /\ aggExisting = NoBins /\ aggDetections' = aggDetections)
          => SameAggregates(aggResult', aggResult)]_aggVars

RECURSIVE SumOver(_, _)
\* Sum of a field over the bins of a set.
SumOver(bins, field) ==
    IF bins = {} THEN 0
    ELSE LET b == CHOOSE x \in bins : TRUE IN b[field] + SumOver(bins \ {b}, field)

\* The lower bins of the same camera whose bucket start lies in the bucket of upper.
LowerBinsWithin(upper, lowerBins) ==
    {b \in lowerBins : b.cameraId = upper.cameraId /\ upper.startTs <= b.startTs /\ b.startTs <= upper.endTs}

Conserved(upperBins, lowerBins) ==
    \A upper \in upperBins :
        /\ upper.aggregatedNumber = SumOver(LowerBinsWithin(upper, lowerBins), "aggregatedNumber")
        /\ upper.sumOccupiedSpaces = SumOver(LowerBinsWithin(upper, lowerBins), "sumOccupiedSpaces")

\* C3: after any chain of aggregate calls, every day, week, month and year
\* bin's aggregatedNumber and sumOccupiedSpaces are the sums over the lower
\* bins in its bucket (hour bins for day and week, day bins for month and year).
C3_Conservation ==
    /\ Conserved(aggResult.dayBins, aggResult.hourBins)
    /\ Conserved(aggResult.weekBins, aggResult.hourBins)
    /\ Conserved(aggResult.monthBins, aggResult.dayBins)
    /\ Conserved(aggResult.yearBins, aggResult.dayBins)

HourKeyOf(detection) ==
    MakeBinKey("hour", detection.cameraId, StartOf(detection.ts, "hour", detection.timezone))

\* The detections of the latest batch that fall in the hour bin with this id.
BatchAt(key) == {i \in 1..Len(aggDetections) : HourKeyOf(aggDetections[i]) = key}

\* C7: an existing hour bin that already holds the id of every detection of
\* the batch falling at its key comes out of the fold unchanged in every field,
\* and no hour bin holds a detection id twice.
C7_DuplicateIdIsNoOp ==
    /\ \A e \in aggExisting.hourBins :
          (\A i \in BatchAt(e.id) : Includes(e.aggregatedIds, aggDetections[i].id))
              => e \in aggResult.hourBins
    /\ \A b \in aggResult.hourBins :
          \A i, j \in 1..Len(b.aggregatedIds) :
              i # j => b.aggregatedIds[i] # b.aggregatedIds[j]

\* a batch replays a detection against the hour bin that already holds its id
C7_Witness ==
    \E e \in aggExisting.hourBins :
        /\ BatchAt(e.id) # {}
        /\ \A i \in BatchAt(e.id) : Includes(e.aggregatedIds, aggDetections[i].id)
        /\ Len(e.aggregatedIds) = 2
        /\ e \in aggResult.hourBins
(***************************************************************************)
(* Properties of the deployed system                                       *)
(***************************************************************************)
\* The ids folded into the persisted hour bins.
AggregatedIds == UNION {SeqToSet(b.aggregatedIds) : b \in binTables.hourBins}

\* The aggregated detections of a bin's camera whose ts lies in its bucket.
ContributorsOf(bin) ==
    {d \in detectionsTable : /\ d.id \in AggregatedIds
                             /\ d.cameraId = bin.cameraId
                             /\ bin.startTs <= d.ts /\ d.ts <= bin.endTs}

NoRunFailed == \A i \in 1..Len(runLog) : runLog[i].status # "error"

\* C2: after serialized, successful runs and ingestions, every persisted bin
\* of every granularity counts each aggregated detection of its camera and
\* bucket exactly once.
C2_CountedExactlyOnce ==
    (RunIdle /\ NoRunFailed) =>
        \A level \in Levels : \A bin \in BinsOf(binTables, level) :
            bin.aggregatedNumber = Cardinality(ContributorsOf(bin))

\* C4: whenever no invocation is in progress, every stored detection with ts
\* below the watermark has been folded into an hour bin.
C4_NothingLeftBehindWatermark ==
    (Quiet /\ watermark # NoItem) =>
        \A d \in detectionsTable : d.ts < watermark => d.id \in AggregatedIds

\* The step ends a run with this status.
RunEndsWith(status) ==
    /\ aggPc # "idle" /\ aggPc' = "idle"
    /\ runLog'[Len(runLog')].status = status

\* Every bin that aggregate() returned to this run is in its table.
AllBinsPut ==
    \A level \in Levels : BinsOf(updatedBins, level) \subseteq BinsOf(binTables, level)

StoredBatch(ids) == ScanOrder({d \in detectionsTable : d.id \in ids})

\* C6: a first run that fails after persisting the bins of some granularities
\* only, then a retry over the same detections that succeeds, leave the bins
\* a single successful run leaves.
C6_RetryEquivalent ==
    (/\ RunIdle
     /\ Len(runLog) = 2
     /\ runLog[1].status = "error"
     /\ runLog[1].put # {} /\ runLog[1].put # Levels
     /\ runLog[2].status = "success"
     /\ runLog[2].fetched = runLog[1].fetched)
        => SameAggregates(binTables, Aggregate(StoredBatch(runLog[2].fetched), NoBins))

RECURSIVE MinTs(_)
\* The smallest ts of a non-empty batch.
MinTs(batch) ==
    IF Len(batch) = 1 THEN batch[1].ts ELSE Min(batch[1].ts, MinTs(Tail(batch)))

\* The step ends the invocation of p after its detections were saved.
PostEnds(p) == postPc[p] = "putWatermark" /\ postPc'[p] = "idle"

\* p has stored a detection with ts below the watermark.
StoredLate(p) ==
    /\ postPc[p] = "putWatermark"
    /\ watermark # NoItem
    /\ \E i \in 1..Len(postDetections[p]) : postDetections[p][i].ts < watermark

C9_RunNeverRewinds ==
    [][/\ (aggPc = "putWatermark" /\ aggPc' = "idle")
            => watermark' >= last_detections_aggregation
       /\ (watermark # NoItem /\ watermark' < watermark) =>
            \E p \in Posters :
                /\ PostEnds(p)
                /\ \E i \in 1..Len(postDetections[p]) :
                      /\ postDetections[p][i].ts = watermark'
                      /\ postDetections[p][i] \in detectionsTable]_vars

\* C10: a run that fetches no detection writes no bin and no watermark and
\* returns "no new detections to aggregate".
C10_NoDetectionsNoWrites ==
    [][/\ (aggPc = "getDetections" /\ aggPc' # aggPc /\ GetDetections(last_detections_aggregation) = {}) =>
            /\ RunEndsWith("no new detections to aggregate")
            /\ runLog'[Len(runLog')].put = {}
       /\ (aggPc \in {"idle", "getWatermark", "getDetections"} /\ aggPc' # aggPc) =>
            (binTables' = binTables /\ watermark' = watermark)]_vars

\* a run found nothing to aggregate above the watermark a previous run had set
C10_Witness ==
    /\ Len(runLog) = 2
    /\ runLog[1].status = "success"
    /\ runLog[2].status = "no new detections to aggregate"
    /\ binTables.hourBins # {}
    /\ \A d \in detectionsTable : d.ts < watermark

\* C11: the watermark a successful run leaves is the time the run captured
\* when it started, before it fetched, whatever the ts of the detections it
\* fetched and however long it ran.
C11_WatermarkIsRunStart ==
    [][/\ (aggPc = "idle" /\ aggPc' # "idle") => runNow' = now
       /\ (aggPc # "idle" /\ aggPc' # "idle") => runNow' = runNow
       /\ RunEndsWith("success") =>
            /\ watermark' = runNow
            /\ detections # <<>>]_vars

\* the only ingestion so far stored a detection, and a run that started at a
\* later time has succeeded on it
C11_Witness ==
    /\ RunIdle
    /\ Len(runLog) = 1
    /\ runLog[1].status = "success"
    /\ postCount = 1
    /\ runLog[1].fetched # {}
    /\ watermark # NoItem
    /\ \A d \in detectionsTable : d.ts < watermark
    /\ \A d \in detectionsTable : d.id \in runLog[1].fetched => d.ts # watermark

\* C13: in a deployment that lacks the binding of a bin table, no step of a
\* run writes a bin or the watermark, and every run returns a failure.
C13_MissingBindingFails ==
    [][/\ aggPc' # aggPc => (binTables' = binTables /\ watermark' = watermark)
       /\ (aggPc # "idle" /\ aggPc' = "idle") => RunEndsWith("error")]_vars

(***************************************************************************)
(* More properties of aggregate()                                          *)
(***************************************************************************)
WellFormed(d) == d.cameraId # NoCamera /\ d.timezone # NoZone

\* C12: a detection that lacks cameraId or timezone is skipped: aggregate
\* returns what it returns for the batch without the malformed detections
\* (no bin made for them, the others aggregated as if they were absent).
C12_MalformedSkipped ==
    aggCalls = 1 => aggResult = Aggregate(SelectSeq(aggDetections, WellFormed), NoBins)

\* The bucket of this level that the detection falls in, as a bin key.
BucketKeyOf(detection, level) ==
    MakeBinKey(level, detection.cameraId, StartOf(detection.ts, level, detection.timezone))

\* The detections of the batch (one per id) of the bin's camera whose ts
\* falls in the bin's bucket.
MembersOf(bin) ==
    {d \in SeqToSet(aggDetections) :
        d.cameraId = bin.cameraId /\ bin.startTs <= d.ts /\ d.ts <= bin.endTs}

\* The bin holds the count, sum, minimum and maximum of its members.
SummarisesMembers(bin) ==
    LET members == MembersOf(bin)
    IN  /\ bin.aggregatedNumber = Cardinality(members)
        /\ bin.sumOccupiedSpaces = SumOver(members, "occupiedSpaces")
        /\ \E d \in members : d.occupiedSpaces = bin.minOccupiedSpaces
        /\ \E d \in members : d.occupiedSpaces = bin.maxOccupiedSpaces
        /\ \A d \in members : /\ bin.minOccupiedSpaces <= d.occupiedSpaces
                               /\ d.occupiedSpaces <= bin.maxOccupiedSpaces

\* C14: with no existing bins, aggregate returns for each camera and each
\* occupied day, week, month and year bucket exactly one bin, which holds the
\* count, sum, minimum and maximum of occupiedSpaces over that camera's
\* detections of the batch in the bucket.
C14_RollupSummarises ==
    (aggCalls = 1 /\ aggExisting = NoBins) =>
        \A level \in Levels \ {"hour"} :
            LET bins == BinsOf(aggResult, level)
            IN  /\ {b.id : b \in bins} = {BucketKeyOf(d, level) : d \in SeqToSet(aggDetections)}
                /\ \A b, c \in bins : b.id = c.id => b = c
                /\ \A b \in bins : b.binSize = level /\ SummarisesMembers(b)

\* one camera has detections, with different readings, in two hours of one
\* day, and another camera has a detection too
C14_Witness ==
    /\ aggCalls = 1
    /\ Cardinality(aggResult.yearBins) = 2
    /\ \E day \in aggResult.dayBins :
          /\ Cardinality({h \in aggResult.hourBins : h.cameraId = day.cameraId
                             /\ day.startTs <= h.startTs /\ h.startTs <= day.endTs}) = 2
          /\ day.aggregatedNumber = 2
          /\ day.minOccupiedSpaces < day.maxOccupiedSpaces

\* The aggregate values of an hour bin, with its identity and the set of its ids.
HourValues(bin) == <<AggregateValues(bin), SeqToSet(bin.aggregatedIds)>>

Disjoint(D1, D2) == \A i \in DOMAIN D1 : \A j \in DOMAIN D2 : D1[i].id # D2[j].id

\* C15: for disjoint batches D1 and D2, aggregate(D2, {hourBins of
\* aggregate(D1)}) returns hour bins with the values and ids of the hour bins
\* of aggregate(D1 followed by D2), one per (cameraId, hour start).
C15_MergeIntoExistingHourBins ==
    [][(aggCalls = 1 /\ aggCalls' = 2 /\ Disjoint(aggDetections, aggDetections')) =>
          /\ {HourValues(b) : b \in aggResult'.hourBins}
                = {HourValues(b) : b \in Aggregate(aggDetections \o aggDetections', NoBins).hourBins}
          /\ \A b, c \in aggResult'.hourBins :
                (b.cameraId = c.cameraId /\ b.startTs = c.startTs) => b = c]_vars

\* the second batch added a detection to the hour bin of the first batch and
\* made a bin for another camera
C15_Witness ==
    /\ aggCalls = 2
    /\ aggExisting.dayBins = {}
    /\ Cardinality(aggExisting.hourBins) = 1
    /\ Cardinality(aggResult.hourBins) = 2
    /\ \E e \in aggExisting.hourBins : \E b \in aggResult.hourBins :
          /\ b.id = e.id
          /\ Len(e.aggregatedIds) = 1
          /\ Len(b.aggregatedIds) = 2

Cameras == {CameraOf(id) : id \in DetectionIds}

OfCamera(bins, cameraId) ==
    [hourBins |-> {b \in bins.hourBins : b.cameraId = cameraId},
     dayBins |-> {b \in bins.dayBins : b.cameraId = cameraId},
     weekBins |-> {b \in bins.weekBins : b.cameraId = cameraId},
     monthBins |-> {b \in bins.monthBins : b.cameraId = cameraId},
     yearBins |-> {b \in bins.yearBins : b.cameraId = cameraId}]

\* The detections of the latest batch that are of this camera.
BatchOfCamera(cameraId) ==
    LET IsOfCamera(d) == d.cameraId = cameraId IN SelectSeq(aggDetections, IsOfCamera)

\* C16: the bins of a camera that aggregate returns, at the five
\* granularities, are those it returns when the detections of the other
\* cameras are taken out of the batch (same existing bins).
C16_CameraIsolation ==
    \A cameraId \in Cameras :
        OfCamera(aggResult, cameraId)
            = OfCamera(Aggregate(BatchOfCamera(cameraId), aggExisting), cameraId)

\* a batch held detections of two cameras in the same hour, one of which had
\* bins already
C16_Witness ==
    /\ aggCalls = 2
    /\ \E i, j \in DOMAIN aggDetections :
          /\ aggDetections[i].cameraId # aggDetections[j].cameraId
          /\ StartOf(aggDetections[i].ts, "hour", aggDetections[i].timezone)
                = StartOf(aggDetections[j].ts, "hour", aggDetections[j].timezone)
          /\ \E e \in aggExisting.hourBins : e.cameraId = aggDetections[i].cameraId
          /\ \A e \in aggExisting.hourBins : e.cameraId # aggDetections[j].cameraId

\* C17: aggregate leaves its arguments as they were: once it has returned,
\* every bin of the caller's existingBins has the field values it had before
\* the call.
C17_ArgumentsUntouched == ExistingBinsAfter(aggExisting, aggResult) = aggExisting

UpperLevels == Levels \ {"hour"}

\* C18: in what aggregate returns, every hour bin has a non-empty
\* aggregatedIds whose length is its aggregatedNumber, and no day, week,
\* month or year bin has aggregatedIds.
C18_IdsOnHourBinsOnly ==
    /\ \A b \in aggResult.hourBins :
          /\ b.aggregatedIds # Undefined
          /\ b.aggregatedIds # <<>>
          /\ b.aggregatedNumber = Len(b.aggregatedIds)
    /\ \A level \in UpperLevels : \A b \in BinsOf(aggResult, level) :
          b.aggregatedIds = Undefined

\* a second call added an id to an existing hour bin, and bins of every level
\* were returned
C18_Witness ==
    /\ aggCalls = 2
    /\ \E e \in aggExisting.hourBins : \E b \in aggResult.hourBins :
          b.id = e.id /\ Len(e.aggregatedIds) = 1 /\ Len(b.aggregatedIds) = 2
    /\ \A level \in UpperLevels : BinsOf(aggResult, level) # {}

\* min <= mean <= max, on means that are numbers
Between(min, mean, max) ==
    /\ Len(mean) = 2 /\ mean[2] > 0
    /\ FracLeq(<<min, 1>>, mean)
    /\ FracLeq(mean, <<max, 1>>)

\* C19: every bin that aggregate returns, at every level and after any chain
\* of calls, has minOccupiedSpaces <= meanOccupiedSpaces <= maxOccupiedSpaces
\* and minTotalSpaces <= meanTotalSpaces <= maxTotalSpaces.
C19_MeanBetweenMinAndMax ==
    \A level \in Levels : \A b \in BinsOf(aggResult, level) :
        /\ Between(b.minOccupiedSpaces, b.meanOccupiedSpaces, b.maxOccupiedSpaces)
        /\ Between(b.minTotalSpaces, b.meanTotalSpaces, b.maxTotalSpaces)

\* after a chain of two calls a year bin has a mean strictly between its
\* minimum and its maximum
C19_Witness ==
    /\ aggCalls = 2
    /\ aggExisting.yearBins # {}
    /\ \E b \in aggResult.yearBins :
          /\ b.minOccupiedSpaces < b.maxOccupiedSpaces
          /\ ~FracLeq(b.meanOccupiedSpaces, <<b.minOccupiedSpaces, 1>>)
          /\ ~FracLeq(<<b.maxOccupiedSpaces, 1>>, b.meanOccupiedSpaces)

\* C20: when every existing bin has aggregatedNumber > 0, every bin that
\* aggregate returns has aggregatedNumber > 0 and sumOccupiedSpaces >= 0.
C20_NoEmptyBin ==
    (\A level \in Levels : \A e \in BinsOf(aggExisting, level) : e.aggregatedNumber > 0) =>
        \A level \in Levels : \A b \in BinsOf(aggResult, level) :
            b.aggregatedNumber > 0 /\ b.sumOccupiedSpaces >= 0

\* a call on existing bins made a new bin at every level
C20_Witness ==
    /\ aggCalls = 2
    /\ \A level \in Levels :
          /\ BinsOf(aggExisting, level) # {}
          /\ Cardinality(BinsOf(aggResult, level)) > Cardinality(BinsOf(aggExisting, level))

(***************************************************************************)
(* Order of the batch, time zones, rollup pipeline                         *)
(***************************************************************************)
\* The position in the batch of a detection that no other one precedes in
\* time (ties: the smaller id, then the earlier position).
Earliest(D) ==
    CHOOSE i \in DOMAIN D : \A j \in DOMAIN D :
        \/ D[i].ts < D[j].ts
        \/ D[i].ts = D[j].ts /\ D[i].id < D[j].id
        \/ D[i].ts = D[j].ts /\ D[i].id = D[j].id /\ i <= j

RECURSIVE InTsOrder(_)
\* The batch listed in timestamp order: what every permutation of it becomes.
InTsOrder(D) ==
    IF D = <<>> THEN <<>>
    ELSE LET i == Earliest(D)
         IN  <<D[i]>> \o InTsOrder(SubSeq(D, 1, i - 1) \o SubSeq(D, i + 1, Len(D)))

\* Same keys and aggregate values at every level, same ids in every hour bin.
SameBins(R1, R2) ==
    /\ SameAggregates(R1, R2)
    /\ {HourValues(b) : b \in R1.hourBins} = {HourValues(b) : b \in R2.hourBins}

\* C21: aggregate(D, {}) returns for every batch D the bins (keys,
\* aggregatedNumber, sums, minima, maxima at every level, set of
\* aggregatedIds of every hour bin) that it returns for D listed in timestamp
\* order; the permutations of a batch, which have the same listing in
\* timestamp order, therefore all return the same bins.
C21_OrderOfBatchIrrelevant ==
    (aggCalls = 1 /\ aggExisting = NoBins) =>
        SameBins(Aggregate(InTsOrder(aggDetections), NoBins), aggResult)

\* the batch lists a later detection of a camera before an earlier one with
\* another reading, both of the same day and of different hours
C21_Witness ==
    /\ aggCalls = 1
    /\ \E i, j \in DOMAIN aggDetections :
          /\ i < j
          /\ aggDetections[i].ts > aggDetections[j].ts
          /\ aggDetections[i].cameraId = aggDetections[j].cameraId
          /\ aggDetections[i].occupiedSpaces # aggDetections[j].occupiedSpaces
          /\ BucketKeyOf(aggDetections[i], "day") = BucketKeyOf(aggDetections[j], "day")
          /\ BucketKeyOf(aggDetections[i], "hour") # BucketKeyOf(aggDetections[j], "hour")

\* The local calendar day and hour of a detection in its own zone, counted
\* from the zone's epoch.
LocalDay(d) == (d.ts + ZoneOffset(d.timezone)) \div DayLen
LocalHour(d) == (d.ts + ZoneOffset(d.timezone)) \div HourLen
UTCDay(d) == d.ts \div DayLen

\* The bins of the detection's camera whose bucket holds its instant.
BinsHolding(d, bins) ==
    {b \in bins : b.cameraId = d.cameraId /\ b.startTs <= d.ts /\ d.ts <= b.endTs}

\* C22: two detections of a camera whose local times lie in different local
\* days (hence different local hours) of the camera's zone are folded into
\* different hour bins and counted in different day bins, also when both
\* instants lie in the same UTC day.
C22_BucketsInOwnTimezone ==
    (aggCalls = 1 /\ aggExisting = NoBins) =>
        \A i, j \in DOMAIN aggDetections :
            LET d == aggDetections[i]
                e == aggDetections[j]
            IN  (d.cameraId = e.cameraId /\ LocalDay(d) # LocalDay(e)) =>
                    /\ \E h \in aggResult.hourBins : Includes(h.aggregatedIds, d.id)
                    /\ \A h \in aggResult.hourBins :
                          ~(Includes(h.aggregatedIds, d.id) /\ Includes(h.aggregatedIds, e.id))
                    /\ BinsHolding(d, aggResult.dayBins) # {}
                    /\ BinsHolding(d, aggResult.dayBins) \cap BinsHolding(e, aggResult.dayBins) = {}
                    /\ \A b \in BinsHolding(d, aggResult.dayBins) :
                          /\ (b.startTs + ZoneOffset(d.timezone)) % DayLen = 0
                          /\ b.endTs = b.startTs + DayLen - 1

\* two detections of a camera, before and after the local midnight of its
\* zone, within one UTC day: two day bins of one detection each
C22_Witness ==
    /\ aggCalls = 1
    /\ \E i, j \in DOMAIN aggDetections :
          LET d == aggDetections[i]
              e == aggDetections[j]
          IN  /\ d.cameraId = e.cameraId
              /\ d.timezone = "America/Montreal"
              /\ LocalDay(d) + 1 = LocalDay(e)
              /\ LocalHour(d) + 1 = LocalHour(e)
              /\ UTCDay(d) = UTCDay(e)
              /\ \E b \in BinsHolding(d, aggResult.dayBins) : b.aggregatedNumber = 1
              /\ \E b \in BinsHolding(e, aggResult.dayBins) : b.aggregatedNumber = 1

(***************************************************************************)
(* Overlapping ingestions                                                  *)
(***************************************************************************)
\* C23: an ingestion that has stored a detection with ts below the watermark
\* it read ends with the watermark at or below that ts, and never above what
\* another ingestion has rewound it to meanwhile: once two overlapping
\* ingestions of late detections have both ended, the watermark is at or
\* below the smaller of the two ts.
C23_ConcurrentRewindKept ==
    [][\A p \in Posters :
          (PostEnds(p) /\ oldestTs[p] < postLast[p]) =>
              /\ watermark' <= oldestTs[p]
              /\ watermark' <= watermark]_vars

(***************************************************************************)
(* Empty lower bins, rollup pipeline                                       *)
(***************************************************************************)
\* C24: a lower bin with aggregatedNumber = 0 is skipped by the rollups: it
\* makes no upper bin, so that no day, week, month or year bin comes out
\* with nothing folded into it.
C24_EmptyLowerBinSkipped ==
    aggCalls = 1 =>
        \A level \in UpperLevels : \A b \in BinsOf(aggResult, level) : b.aggregatedNumber > 0

\* What the call added to this field of a returned bin: its value, less the
\* value in the existing bin of the same id if there was one.
GainOf(bin, existingBins, field) ==
    LET previous == {e \in existingBins : e.id = bin.id}
    IN  IF previous = {} THEN bin[field]
        ELSE bin[field] - (CHOOSE e \in previous : TRUE)[field]

\* C25: in every aggregate call the year bins are folded from the day bins
\* of the same call: each year bin gains the aggregatedNumber and the sums
\* of the day bins in its bucket.
C25_YearFoldedFromDays ==
    \A y \in aggResult.yearBins :
        /\ GainOf(y, aggExisting.yearBins, "aggregatedNumber")
              = SumOver(LowerBinsWithin(y, aggResult.dayBins), "aggregatedNumber")
        /\ GainOf(y, aggExisting.yearBins, "sumOccupiedSpaces")
              = SumOver(LowerBinsWithin(y, aggResult.dayBins), "sumOccupiedSpaces")
        /\ GainOf(y, aggExisting.yearBins, "sumTotalSpaces")
              = SumOver(LowerBinsWithin(y, aggResult.dayBins), "sumTotalSpaces")

(***************************************************************************)
(* The bins a run loads                                                    *)
(***************************************************************************)
\* The bound the claim gives for a level: the watermark minus two hours, two
\* days, two weeks, two months (62 days), two years (744 days).
WidenedBound(level, last) == last - (2 * UnitLen(level))

\* The run has loaded the existing bins and aggregated.
RunAggregates == aggPc = "getExistingBins" /\ aggPc' = "put_hour"

WellDefined(x) == Len(x) = 2 /\ x[2] # 0

\* C27: every bin that aggregate returns has a well-defined
\* meanOccupiedSpaces, meanTotalSpaces and occupationRate (no division by
\* zero), also when detections have totalSpaces 0.
C27_NoDivisionByZero ==
    \A level \in Levels : \A b \in BinsOf(aggResult, level) :
        /\ WellDefined(b.meanOccupiedSpaces)
        /\ WellDefined(b.meanTotalSpaces)
        /\ WellDefined(b.occupationRate)

(***************************************************************************)
(* The timezone of the site                                                *)
(***************************************************************************)
\* C28: the bins that the runs persist have, at every level, the bucket
\* boundaries of the timezone that the sites table gives for their site
\* (UTC when it gives none).
C28_BucketsInSiteTimezone ==
    \A level \in Levels : \A b \in BinsOf(binTables, level) :
        /\ b.startTs = StartOf(b.startTs, level, TimezoneBySiteId(b.siteId))
        /\ b.endTs = EndOf(b.startTs, level, TimezoneBySiteId(b.siteId))

(***************************************************************************)
(* Existing bins                                                           *)
(***************************************************************************)
\* The returned bins that stand for this existing bin.
ReturnedFor(e, returned) == {b \in returned : b.cameraId = e.cameraId /\ b.startTs = e.startTs}

\* C29: every existing bin, at each level, comes out of aggregate under the
\* same cameraId and startTs, once, with aggregatedNumber, sumOccupiedSpaces
\* and maxOccupiedSpaces not smaller and minOccupiedSpaces not larger.
C29_ExistingBinsKept ==
    \A level \in Levels : \A e \in BinsOf(aggExisting, level) :
        /\ Cardinality(ReturnedFor(e, BinsOf(aggResult, level))) = 1
        /\ \A b \in ReturnedFor(e, BinsOf(aggResult, level)) :
              /\ b.aggregatedNumber >= e.aggregatedNumber
              /\ b.sumOccupiedSpaces >= e.sumOccupiedSpaces
              /\ b.maxOccupiedSpaces >= e.maxOccupiedSpaces
              /\ b.minOccupiedSpaces <= e.minOccupiedSpaces

\* a call lowered the minimum of an existing hour bin of one camera and left
\* the existing hour bin of the other camera as it was
C29_Witness ==
    /\ aggCalls = 2
    /\ \E e \in aggExisting.hourBins : \E b \in ReturnedFor(e, aggResult.hourBins) :
          b.minOccupiedSpaces < e.minOccupiedSpaces /\ b.aggregatedNumber = e.aggregatedNumber + 1
    /\ \E e \in aggExisting.hourBins : e \in aggResult.hourBins

(***************************************************************************)
(* Ingestion whose watermark write fails                                   *)
(***************************************************************************)
\* C30: an ingestion that has stored a detection with ts below the
\* watermark ends, whether with success or with an error, with the
\* watermark at or below that ts.
C30_LateDetectionNeverLeftBehind ==
    [][\A p \in Posters :
          (PostEnds(p) /\ StoredLate(p)) =>
              \A i \in 1..Len(postDetections[p]) :
                  (postDetections[p][i] \in detectionsTable /\ postDetections[p][i].ts < watermark)
                      => watermark' <= postDetections[p][i].ts]_vars
====
